---------------------------- MODULE Spec2Model ----------------------------
(***************************************************************************)
(* Model of lodz_alcohol_map_v6.py: the geocoding cache with its two       *)
(* rate-limited providers (geocode_addresses, _save_cache), the point      *)
(* stage of main (to_gdf, spatial_join, the counts of build_map) and the   *)
(* script of the rendered page (build_interactivity_js).                   *)
(*                                                                         *)
(* Representation.                                                         *)
(*  - A string is a sequence of whitespace-separated words.  A letter      *)
(*    with a diacritic is written with a "~" after it ("L~a~kowa"), since  *)
(*    the module text is ASCII; unidecode removes the marks.               *)
(*  - An address cell of the spreadsheet is a string, or NoAddr for an     *)
(*    empty cell (pandas NaN).  Address strings are text that pandas       *)
(*    writes to and reads from CSV unchanged (not numeric, not an NA       *)
(*    token).                                                              *)
(*  - A float is a record: NaN, or Float(v) with v a fixed-point number    *)
(*    that survives the CSV text form exactly.                             *)
(*  - Time is counted in ticks; min_delay is MinDelay ticks.  Each rate    *)
(*    limiter keeps the age of its last call, saturated at MinDelay,       *)
(*    which is all that "clock - last_call >= min_delay" reads.            *)
(***************************************************************************)
EXTENDS Integers, Sequences, FiniteSets, TLC

VARIABLES
    workload,   \* which spreadsheets the user supplies: "small" or "bulk"
    file,       \* the cache CSV: NoFile, or [rows |-> set of CSV rows]
    pc,         \* position of the process: idle, loop, call, store,
                \* returned (from geocode_addresses), hascoords, mapped
    df,         \* the DataFrame: a sequence of rows [addr, lat, lon]
    cache,      \* the dict of geocode_addresses
    todo,       \* the addresses the for loop has not reached yet
    cur,        \* the loop variable addr
    loc,        \* the local variable loc
    lim,        \* the two RateLimiter objects: provider -> [called, age]
    attempts,   \* history: the limiter calls made for cur
    done,       \* history: the addresses the loop has handled in this run
    net,        \* history: the last network call and its gap to the one before
    file0,      \* history: the cache file as it was when the run started
    unsaved,    \* history: results stored since the cache was last written
    pts,        \* the joined point rows of main
    counts,     \* build_map's counts per neighbourhood
    page        \* the state of the rendered page's script

vars == <<workload, file, pc, df, cache, todo, cur, loc, lim, attempts, done,
          net, file0, unsaved, pts, counts, page>>

geoVars == <<workload, file, pc, df, cache, todo, cur, loc, lim, attempts,
             done, net, file0, unsaved, pts, counts>>

-----------------------------------------------------------------------------
(* Bounds of the model *)

\* rows of a spreadsheet of the small workload
MaxRows == 2
\* longest time, in ticks, from the start of one provider call to the next
\* limiter invocation
MaxLatency == 1
\* addresses of the bulk spreadsheet that no provider knows
NFill == 101
\* points on the rendered page
MaxPts == 2

(* Program constants *)

\* min_delay=1.0, in ticks
MinDelay == 1
\* len(cache)%100==0
CheckpointEvery == 100

-----------------------------------------------------------------------------
(* Floats, locations *)

NaN == [isnan |-> TRUE, v |-> 0]
Float(v) == [isnan |-> FALSE, v |-> v]
isna(x) == x.isnan

NanPair == <<NaN, NaN>>

\* a geopy Location, or None
NoLoc == [found |-> FALSE, latitude |-> 0, longitude |-> 0]
Location(la, lo) == [found |-> TRUE, latitude |-> la, longitude |-> lo]

\* the places the providers may answer with: <<latitude, longitude>>
Places == {<<51, 19>>, <<52, 20>>}

-----------------------------------------------------------------------------
(* Strings and normalize_address *)

NoAddr == << >>

CityHint == "L~o~d~z~, Polska"

NumWords == {ToString(i) : i \in 0..(NFill + 1)}
IsNum(w) == w \in NumWords

\* re.sub(r"\bul\.?", "", ..., flags=re.I) on one word of the vocabulary
StripUl(w) == IF w \in {"ul.", "ul", "UL.", "Ul."} THEN "" ELSE w

RECURSIVE DropUnit(_, _)
\* re.sub(r"\b<u>\.?\s*\S+", "", ...): the unit word and the word after it
DropUnit(s, units) ==
    IF s = << >> THEN << >>
    ELSE IF Head(s) \in units /\ Len(s) >= 2
         THEN DropUnit(Tail(Tail(s)), units)
         ELSE <<Head(s)>> \o DropUnit(Tail(s), units)

unidecode(w) ==
    CASE w = "Z~o~l~ta" -> "Zolta"
      [] w = "L~o~d~z~" -> "Lodz"
      [] OTHER -> w

\* re.sub(r"\s+", " ", a) and the final strip(): the non-empty words
Squeeze(s) == SelectSeq(s, LAMBDA w : w # "")

normalize_address(addr) ==
    LET a1 == Squeeze([i \in 1..Len(addr) |-> StripUl(addr[i])])
        a2 == DropUnit(a1, {"lok.", "lok"})
        a3 == DropUnit(a2, {"paw.", "paw"})
        a4 == Squeeze(a3)
    IN  [i \in 1..Len(a4) |-> unidecode(a4[i])]

\* re.sub(r"\s+\d+.*$", "", addr).strip(): cut at the first word after the
\* first that starts with a digit
street_only(addr) ==
    LET cut == {i \in 2..Len(addr) : IsNum(addr[i])}
    IN  IF cut = {} THEN addr
        ELSE SubSeq(addr, 1, (CHOOSE i \in cut : \A j \in cut : i <= j) - 1)

\* f"{normalize_address(x)}, {city_hint}"
Query(x) == Append(normalize_address(x), CityHint)
q_full(addr) == Query(addr)
q_street(addr) == Query(street_only(addr))

-----------------------------------------------------------------------------
(* The inputs *)

\* two raw addresses with the same normalized query, "Zolta 5"
A1 == <<"ul.", "Z~o~l~ta", "5">>
A2 == <<"Zolta", "5", "lok.", "3">>
NamedAddr == {A1, A2}

\* an address of the bulk spreadsheet
Filler(i) == <<"Dluga", ToString(i)>>

\* a spreadsheet row without coordinate columns
RowOf(a) == [addr |-> a, lat |-> NaN, lon |-> NaN]

\* the rows of a spreadsheet that brings its own lat and lon columns
CoordRows ==
    {[addr |-> A1, lat |-> la, lon |-> lo] :
        la \in {NaN, Float(51)}, lo \in {NaN, Float(19)}}

SeqsUpTo(S, n) == UNION {[1..k -> S] : k \in 0..n}

SmallInputs ==
    {[hasCoords |-> FALSE, rows |-> s] :
        s \in SeqsUpTo({RowOf(a) : a \in NamedAddr \cup {NoAddr}}, MaxRows)}
    \cup
    {[hasCoords |-> TRUE, rows |-> s] :
        s \in SeqsUpTo(CoordRows, MaxRows) \ {<< >>}}

BulkInputs ==
    {[hasCoords |-> FALSE,
      rows |-> [i \in 1..(NFill + 1) |->
                   IF i <= NFill THEN RowOf(Filler(i)) ELSE RowOf(A1)]]}

Inputs(w) == IF w = "bulk" THEN BulkInputs ELSE SmallInputs

\* what a provider may answer to a query: nothing, or one of the places;
\* no provider knows the street of the bulk addresses
Answers(q) ==
    IF q[1] = "Dluga" THEN {NoLoc}
    ELSE {NoLoc} \cup {Location(p[1], p[2]) : p \in Places}

\* the neighbourhood polygons: name and the places inside
Polys == {[name |-> "Baluty", area |-> {<<51, 19>>}],
          [name |-> "Widzew", area |-> {}]}

-----------------------------------------------------------------------------
(* The cache file and the dict *)

NoFile == [exists |-> FALSE, rows |-> {}]

EmptyDict == [a \in {} |-> NanPair]

\* to_csv writes NaN as an empty cell and a float as its digits
Cell(x) == IF isna(x) THEN << >> ELSE <<x.v>>
\* read_csv reads an empty cell as NaN
ParseCell(c) == IF c = << >> THEN NaN ELSE Float(c[1])

\* cache = {r['address']: (r['lat'], r['lon']) for _, r in cdf.iterrows()}
ReadCache(f) ==
    [a \in {r.address : r \in f.rows} |->
        LET r == CHOOSE r \in f.rows : r.address = a
        IN  <<ParseCell(r.lat), ParseCell(r.lon)>>]

\* a variant of LoadCache that never reads the file
LoadCacheFresh(f) == EmptyDict

\* cache = {} ; if cache_path.exists(): ...
LoadCache(f) == IF f.exists THEN ReadCache(f) ELSE EmptyDict

\* _save_cache: one row per item of the dict (the timestamp_iso column is
\* written and never read, and is left out)
SaveCache(c) ==
    [exists |-> TRUE,
     rows |-> {[address |-> k, lat |-> Cell(c[k][1]), lon |-> Cell(c[k][2])] :
                  k \in DOMAIN c}]

FileAddrs(f) == {r.address : r \in f.rows}

\* a variant of CacheKey that keys the cache by the normalized query
CacheKeyNormalized(addr) == normalize_address(addr)

\* the key under which addr is looked up and stored: cache[addr]
CacheKey(addr) == addr

\* a variant of IsCached that lost its `not`
IsCachedMissing(c, addr) ==
    CacheKey(addr) \in DOMAIN c /\ isna(c[CacheKey(addr)][1])

\* addr in cache and not pd.isna(cache[addr][0])
IsCached(c, addr) ==
    CacheKey(addr) \in DOMAIN c /\ ~isna(c[CacheKey(addr)][1])

\* cache.get(a, (nan, nan))
CacheGet(c, a) == IF CacheKey(a) \in DOMAIN c THEN c[CacheKey(a)] ELSE NanPair

\* the values of column col at the row numbers in keep, in row order
Pick(col, keep) ==
    [k \in 1..Cardinality(keep) |->
        col[CHOOSE i \in keep : Cardinality({j \in keep : j <= i}) = k]]

\* Series.unique(): the first occurrence of each value, in row order
unique(col) ==
    Pick(col, {i \in 1..Len(col) : \A j \in 1..(i - 1) : col[j] # col[i]})

\* Series.dropna()
dropna(col) == Pick(col, {i \in 1..Len(col) : col[i] # NoAddr})

AddressCol(d) == [i \in 1..Len(d.rows) |-> d.rows[i].addr]

\* a variant of UniqueAddrs without unique()
UniqueAddrsNoDedupe(d) == dropna(AddressCol(d))

\* df[address_col].dropna().unique()
UniqueAddrs(d) == unique(dropna(AddressCol(d)))

-----------------------------------------------------------------------------
(* The rate limiters *)

Providers == {"osm", "arc"}

FreshLimiter == [called |-> FALSE, age |-> 0]

Sat(t) == IF t >= MinDelay THEN MinDelay ELSE t

\* a variant of Wait for limiters built without min_delay_seconds
WaitNone(l) == 0

\* RateLimiter: how long the call sleeps before it is let through
Wait(l) == IF l.called /\ l.age < MinDelay THEN MinDelay - l.age ELSE 0

\* the four attempts of one address, in the order of the two `or` lines
AttemptPlan(addr) ==
    << [prov |-> "osm", query |-> q_full(addr)],
       [prov |-> "arc", query |-> q_full(addr)],
       [prov |-> "osm", query |-> q_street(addr)],
       [prov |-> "arc", query |-> q_street(addr)] >>

\* a variant of GoesOn that makes all four attempts whatever they return
GoesOnAlways(r, k) == k < 4

\* `a or b` goes on to the next attempt only while loc is falsy
GoesOn(r, k) == ~r.found /\ k < 4

\* history of the network calls of a run: the provider of the last call, how
\* long its limiter slept, and the time from the start of the call before
\* it (of any provider, and of the same provider) to its own start
NoNet == [has |-> FALSE, prov |-> "none", slept |-> 0,
          prevKnown |-> FALSE, gapPrev |-> 0,
          ownKnown |-> FALSE, gapOwn |-> 0]

-----------------------------------------------------------------------------
(* The state of a process that has not started *)

InitGeo(w) ==
    /\ workload = w
    /\ file = NoFile
    /\ pc = "idle"
    /\ df = [hasCoords |-> FALSE, rows |-> << >>]
    /\ cache = EmptyDict
    /\ todo = << >>
    /\ cur = NoAddr
    /\ loc = NoLoc
    /\ lim = [p \in Providers |-> FreshLimiter]
    /\ attempts = << >>
    /\ done = << >>
    /\ net = NoNet
    /\ file0 = NoFile
    /\ unsaved = 0
    /\ pts = {}
    /\ counts = EmptyDict

-----------------------------------------------------------------------------
(* The point stage of main and the counts of build_map *)

NoOsiedle == "NaN"

\* a variant of to_gdf that tests the latitude only
to_gdfLatOnly(d) ==
    {[idx |-> i, lat |-> d.rows[i].lat.v, lon |-> d.rows[i].lon.v] :
        i \in {j \in 1..Len(d.rows) : ~isna(d.rows[j].lat)}}

\* to_gdf: a row gets a Point unless its lon or lat is missing, and
\* dropna(subset=['geometry']) drops the rows without one
to_gdf(d) ==
    {[idx |-> i, lat |-> d.rows[i].lat.v, lon |-> d.rows[i].lon.v] :
        i \in {j \in 1..Len(d.rows) :
                  ~(isna(d.rows[j].lon) \/ isna(d.rows[j].lat))}}

Within(p) == {o.name : o \in {q \in Polys : <<p.lat, p.lon>> \in q.area}}

\* gpd.sjoin(..., how='left', predicate='within'): one row per polygon the
\* point is within, and one row with a missing Osiedle if there is none
spatial_join(points) ==
    UNION {IF Within(p) = {} THEN {[idx |-> p.idx, Osiedle |-> NoOsiedle]}
           ELSE {[idx |-> p.idx, Osiedle |-> o] : o \in Within(p)} :
           p \in points}

\* pts.groupby('Osiedle').size()
GroupCounts(j) ==
    [o \in {r.Osiedle : r \in j} \ {NoOsiedle} |->
        Cardinality({r \in j : r.Osiedle = o})]

-----------------------------------------------------------------------------
(* The rendered page; its actions are further down *)

NoPage == [built |-> FALSE]

NoCat == "NaN"

\* the joined point rows a page may be built from: each has a
\* neighbourhood or none, and a category (Rodzaj) or none
PagePoints ==
    [Osiedle : {"Baluty", "Widzew", NoOsiedle}, Rodzaj : {"bar", "sklep", NoCat}]

PageInputs == SeqsUpTo(PagePoints, MaxPts) \ {<< >>}

RECURSIVE Sum(_, _)
\* the sum of f over the set S
Sum(f, S) ==
    IF S = {} THEN 0
    ELSE LET x == CHOOSE x \in S : TRUE IN f[x] + Sum(f, S \ {x})

\* how many rows of j are in the set S of point rows
Count(j, S) == Cardinality({i \in 1..Len(j) : j[i] \in S})

\* categories = sorted(pts['Rodzaj'].dropna().unique())
Categories(j) == {j[i].Rodzaj : i \in 1..Len(j)} \ {NoCat}

\* counts = pts.groupby('Osiedle').size(): the rows of the sidebar table
TableCounts(j) ==
    [o \in {j[i].Osiedle : i \in 1..Len(j)} \ {NoOsiedle} |->
        Count(j, {r \in PagePoints : r.Osiedle = o})]

\* pts.pivot_table(index='Osiedle', columns='Rodzaj', aggfunc='size',
\* fill_value=0).to_dict(orient='index'): only rows with both values count
PivotCounts(j) ==
    LET both == {i \in 1..Len(j) :
                    j[i].Osiedle # NoOsiedle /\ j[i].Rodzaj # NoCat}
    IN  [o \in {j[i].Osiedle : i \in both} |->
            [c \in {j[i].Rodzaj : i \in both} |->
                Count(j, {r \in PagePoints : r.Osiedle = o /\ r.Rodzaj = c})]]

\* the page as build_map, build_sidebar and the script's set-up leave it
BuildPage(j) ==
    [built |-> TRUE,
     points |-> j,
     cats |-> Categories(j),
     countsData |-> PivotCounts(j),
     cells |-> TableCounts(j),
     checked |-> [c \in Categories(j) |-> TRUE],
     selectedCats |-> Categories(j),
     updated |-> FALSE]

\* if(countsData[os] && countsData[os][c]) total+=countsData[os][c]
CellTerm(data, os, c) ==
    IF os \in DOMAIN data /\ c \in DOMAIN data[os] THEN data[os][c] ELSE 0

\* updateCounts: the text of every row's td.cnt
updateCounts(data, sel, cells) ==
    [os \in DOMAIN cells |->
        Sum([c \in sel |-> CellTerm(data, os, c)], sel)]

\* a variant of SelectAfter that never deletes
SelectAfterAddOnly(sel, cat, isChecked) == sel \cup {cat}

\* if(this.checked) selectedCats.add(cat); else selectedCats.delete(cat);
SelectAfter(sel, cat, isChecked) ==
    IF isChecked THEN sel \cup {cat} ELSE sel \ {cat}

\* the user clicks the checkbox of cat, and its change handler runs
Change(cat) ==
    /\ page.built
    /\ cat \in page.cats
    /\ LET now == ~page.checked[cat]
           sel == SelectAfter(page.selectedCats, cat, now)
       IN  page' = [page EXCEPT !.checked[cat] = now,
                                !.selectedCats = sel,
                                !.cells = updateCounts(page.countsData, sel,
                                                       page.cells),
                                !.updated = TRUE]
    /\ UNCHANGED geoVars

CheckboxChange == \E cat \in {"bar", "sklep"} : Change(cat)

InitPage == InitGeo("small") /\ \E j \in PageInputs : page = BuildPage(j)

NextPage == CheckboxChange

SpecPage == InitPage /\ [][NextPage]_vars

-----------------------------------------------------------------------------
(* main and geocode_addresses *)

\* main reads the spreadsheet; without lat and lon columns it enters
\* geocode_addresses, which loads the cache and builds the two limiters
Start ==
    /\ pc = "idle"
    /\ \E d \in Inputs(workload) :
        /\ df' = d
        /\ pc' = IF d.hasCoords THEN "hascoords" ELSE "loop"
        /\ cache' = IF d.hasCoords THEN EmptyDict ELSE LoadCache(file)
        /\ todo' = IF d.hasCoords THEN << >> ELSE UniqueAddrs(d)
    /\ file0' = file
    /\ UNCHANGED <<workload, file, cur, loc, lim, attempts, done, net,
                   unsaved, pts, counts, page>>

\* if addr in cache and not pd.isna(cache[addr][0]): continue
Skip ==
    /\ pc = "loop"
    /\ todo # << >>
    /\ IsCached(cache, Head(todo))
    /\ done' = Append(done, Head(todo))
    /\ todo' = Tail(todo)
    /\ cur' = Head(todo)
    /\ attempts' = << >>
    /\ loc' = NoLoc
    /\ UNCHANGED <<workload, file, pc, df, cache, lim, net, file0, unsaved,
                   pts, counts, page>>

\* the loop body is entered for addr
Begin ==
    /\ pc = "loop"
    /\ todo # << >>
    /\ ~IsCached(cache, Head(todo))
    /\ cur' = Head(todo)
    /\ attempts' = << >>
    /\ loc' = NoLoc
    /\ pc' = "call"
    /\ UNCHANGED <<workload, file, df, cache, todo, lim, done, net,
                   file0, unsaved, pts, counts, page>>

\* one call through a limiter: it sleeps until min_delay has passed since
\* that limiter's last call, calls the provider, and d ticks later the
\* next limiter is invoked
Geocode ==
    /\ pc = "call"
    /\ LET k == Len(attempts) + 1
           a == AttemptPlan(cur)[k]
           w == Wait(lim[a.prov])
           prevAge == IF lim["osm"].called /\ lim["arc"].called
                      THEN (IF lim["osm"].age < lim["arc"].age
                            THEN lim["osm"].age ELSE lim["arc"].age)
                      ELSE IF lim["osm"].called THEN lim["osm"].age
                      ELSE lim["arc"].age
       IN  \E r \in Answers(a.query), d \in 0..MaxLatency :
            /\ attempts' = Append(attempts, [prov |-> a.prov,
                                             query |-> a.query,
                                             result |-> r])
            /\ loc' = r
            /\ pc' = IF GoesOn(r, k) THEN "call" ELSE "store"
            /\ lim' = [p \in Providers |->
                         IF p = a.prov THEN [called |-> TRUE, age |-> Sat(d)]
                         ELSE [called |-> lim[p].called,
                               age |-> IF lim[p].called
                                       THEN Sat(lim[p].age + w + d) ELSE 0]]
            /\ net' = [has |-> TRUE, prov |-> a.prov, slept |-> w,
                       prevKnown |-> net.has,
                       gapPrev |-> IF net.has THEN Sat(prevAge + w) ELSE 0,
                       ownKnown |-> lim[a.prov].called,
                       gapOwn |-> IF lim[a.prov].called
                                  THEN Sat(lim[a.prov].age + w) ELSE 0]
    /\ UNCHANGED <<workload, file, df, cache, todo, cur, done, file0, unsaved, pts, counts, page>>

\* cache[addr] = ... ; if len(cache)%100==0: _save_cache(cache,cache_path)
Store ==
    /\ pc = "store"
    /\ LET val == IF loc.found
                  THEN <<Float(loc.latitude), Float(loc.longitude)>>
                  ELSE NanPair
           c2 == [a \in DOMAIN cache \cup {CacheKey(cur)} |->
                     IF a = CacheKey(cur) THEN val ELSE cache[a]]
       IN  /\ cache' = c2
           /\ IF Cardinality(DOMAIN c2) % CheckpointEvery = 0
              THEN file' = SaveCache(c2) /\ unsaved' = 0
              ELSE file' = file /\ unsaved' = unsaved + 1
    /\ done' = Append(done, cur)
    /\ todo' = Tail(todo)
    /\ pc' = "loop"
    /\ UNCHANGED <<workload, df, cur, loc, lim, attempts, net,
                   file0, pts, counts, page>>

\* after the loop: _save_cache, the lat and lon columns, return df
Finish ==
    /\ pc = "loop"
    /\ todo = << >>
    /\ file' = SaveCache(cache)
    /\ unsaved' = 0
    /\ df' = [hasCoords |-> TRUE,
              rows |-> [i \in 1..Len(df.rows) |->
                          [addr |-> df.rows[i].addr,
                           lat |-> CacheGet(cache, df.rows[i].addr)[1],
                           lon |-> CacheGet(cache, df.rows[i].addr)[2]]]]
    /\ pc' = "returned"
    /\ cur' = NoAddr
    /\ loc' = NoLoc
    /\ lim' = [p \in Providers |-> FreshLimiter]
    /\ attempts' = << >>
    /\ net' = NoNet
    /\ UNCHANGED <<workload, cache, todo, done, file0, pts, counts, page>>

\* the memory of a process that has ended: only the file is left
Gone ==
    /\ pc' = "idle"
    /\ df' = [hasCoords |-> FALSE, rows |-> << >>]
    /\ cache' = EmptyDict
    /\ todo' = << >>
    /\ cur' = NoAddr
    /\ loc' = NoLoc
    /\ lim' = [p \in Providers |-> FreshLimiter]
    /\ attempts' = << >>
    /\ done' = << >>
    /\ net' = NoNet
    /\ file0' = NoFile
    /\ unsaved' = 0
    /\ pts' = {}
    /\ counts' = EmptyDict
    /\ UNCHANGED <<workload, file, page>>

\* the process is interrupted inside geocode_addresses (Ctrl-C, an error
\* the limiters do not swallow): nothing more is written
Abort ==
    /\ pc \in {"loop", "call", "store"}
    /\ Gone

\* main returns after build_map
Exit ==
    /\ pc = "mapped"
    /\ Gone

\* main: pts = spatial_join(to_gdf(df), ...), and build_map's counts
MapStage ==
    /\ pc \in {"returned", "hascoords"}
    /\ pts' = spatial_join(to_gdf(df))
    /\ counts' = GroupCounts(spatial_join(to_gdf(df)))
    /\ pc' = "mapped"
    /\ UNCHANGED <<workload, file, df, cache, todo, cur, loc, lim, attempts,
                   done, net, file0, unsaved, page>>

Init == InitGeo("small") /\ page = NoPage

Next == Start \/ Skip \/ Begin \/ Geocode \/ Store \/ Finish \/ Abort
           \/ MapStage \/ Exit

Spec == Init /\ [][Next]_vars

InitBulk == InitGeo("bulk") /\ page = NoPage

SpecBulk == InitBulk /\ [][Next]_vars

-----------------------------------------------------------------------------
(* The claims *)

\* the run is inside geocode_addresses, or has just returned from it
InRun == pc \in {"loop", "call", "store", "returned"}

\* the rows of the file that hold coordinates, as the run found them
GoodRows0 == {r \in file0.rows : r.lat # << >>}

InputAddrs == {df.rows[i].addr : i \in 1..Len(df.rows)} \ {NoAddr}

Handled == {done[i] : i \in 1..Len(done)}

\* C1 (as amended): a row of the cache file that holds a latitude is never
\* changed or removed by any later write of the file; only rows whose
\* latitude is missing may be replaced.
C1_GoodEntriesNeverChange ==
    [][\A r \in file.rows : r.lat # << >> => r \in file'.rows]_vars

\* C1 (as stated): no row of the cache file is ever changed by a later write.
C1_EntriesNeverChange ==
    [][\A r \in file.rows : r \in file'.rows]_vars

\* a run has returned that met, for addresses of its input, one row with
\* coordinates, which it kept, and one without, which it replaced
C1_Witness ==
    /\ pc = "returned"
    /\ \E r \in GoodRows0 : r.address \in Handled /\ r \in file.rows
    /\ \E r \in file0.rows :
          r.lat = << >> /\ r.address \in Handled /\ r \notin file.rows

\* C2: four attempts without a result leave (NaN, NaN) under the address and
\* the loop goes on; the file written at return holds empty cells for it;
\* and the joined point set holds exactly the rows whose lat and lon are
\* both present, the counts counting only those.
C2_FailuresRecordedAndDropped ==
    /\ (pc = "loop" /\ Len(attempts) = 4 /\ ~attempts[4].result.found)
          => (cur \in DOMAIN cache /\ cache[cur] = NanPair)
    /\ pc = "returned" =>
          \A a \in DOMAIN cache :
              isna(cache[a][1]) =>
                  [address |-> a, lat |-> << >>, lon |-> << >>] \in file.rows
    /\ pc = "mapped" =>
          /\ {p.idx : p \in pts} =
                {i \in 1..Len(df.rows) :
                    ~isna(df.rows[i].lat) /\ ~isna(df.rows[i].lon)}
          /\ \A o \in DOMAIN counts :
                counts[o] = Cardinality({p \in pts : p.Osiedle = o})

\* the map stage has run on a geocoded sheet in which the lookup of one
\* row's address failed, that row is no point, and another row is one
C2_Witness ==
    /\ pc = "mapped"
    /\ \E i, j \in 1..Len(df.rows) :
          /\ df.rows[i].addr = A2
          /\ isna(df.rows[i].lat)
          /\ i \notin {p.idx : p \in pts}
          /\ j \in {p.idx : p \in pts}
          /\ DOMAIN counts # {}

\* C3: when geocode_addresses has returned, the file has a row for every
\* non-null raw address of the input, under that raw string; the keys are
\* the raw addresses of this input and of the file as found; every row of
\* the sheet carries the coordinates of the row of its own raw address, and
\* a row without address carries missing coordinates.
C3_KeyedByRawAddress ==
    pc = "returned" =>
        /\ FileAddrs(file) = FileAddrs(file0) \cup InputAddrs
        /\ \A i \in 1..Len(df.rows) :
              LET row == df.rows[i] IN
              IF row.addr = NoAddr
              THEN isna(row.lat) /\ isna(row.lon)
              ELSE \E r \in file.rows :
                      /\ r.address = row.addr
                      /\ ParseCell(r.lat) = row.lat
                      /\ ParseCell(r.lon) = row.lon

\* a returned run whose sheet holds two raw addresses with one normalized
\* query, each with coordinates of its own
C3_Witness ==
    /\ pc = "returned"
    /\ q_full(A1) = q_full(A2)
    /\ \E i, j \in 1..Len(df.rows) :
          /\ df.rows[i].addr = A1
          /\ df.rows[j].addr = A2
          /\ ~isna(df.rows[i].lat)
          /\ ~isna(df.rows[j].lat)
          /\ df.rows[i].lat # df.rows[j].lat

\* C4 (as amended): a call through a limiter starts at least min_delay after
\* the previous call through the same limiter, that is, to the same
\* provider.
C4_SameProviderDelay ==
    net.ownKnown => net.gapOwn >= MinDelay

\* C4 (as stated): every network call starts at least min_delay after the
\* network call before it, whichever the providers.
C4_AnyTwoCallsDelay ==
    net.prevKnown => net.gapPrev >= MinDelay

\* a provider is called for the second time, after its limiter slept, and
\* the call before it was to the other provider
C4_Witness ==
    /\ net.ownKnown
    /\ net.slept > 0
    /\ net.prevKnown
    /\ Len(attempts) >= 2

FullQuery == <<"Zolta", "5", CityHint>>
StreetQuery == <<"Zolta", CityHint>>

\* C6: the attempts for an address are, in this order, Nominatim and ArcGIS
\* with the full query, then Nominatim and ArcGIS with the street-only
\* query; no attempt follows one that found something; at most four are
\* made, for an address not handled before in the run; and what is stored
\* is the result of the attempt that found something, or (NaN, NaN).
C6_FallbackOrder ==
    LET n == Len(attempts) IN
    /\ n <= 4
    /\ \A k \in 1..n :
          /\ attempts[k].prov = (IF k \in {1, 3} THEN "osm" ELSE "arc")
          /\ attempts[k].query = (IF k <= 2 THEN FullQuery ELSE StreetQuery)
    /\ \A k \in 1..(n - 1) : ~attempts[k].result.found
    /\ pc = "call" => (cur \notin Handled /\ \A k \in 1..n : ~attempts[k].result.found)
    /\ pc = "store" =>
          /\ n >= 1
          /\ cur \notin Handled
          /\ attempts[n].result.found \/ n = 4
    /\ (pc = "loop" /\ n >= 1) =>
          /\ cur \in DOMAIN cache
          /\ cache[cur] =
                IF attempts[n].result.found
                THEN <<Float(attempts[n].result.latitude),
                       Float(attempts[n].result.longitude)>>
                ELSE NanPair

\* the fourth attempt found the place and it has been stored
C6_Witness ==
    /\ pc = "loop"
    /\ Len(attempts) = 4
    /\ attempts[4].result.found
    /\ ~isna(cache[cur][1])

\* C7: during a run, an address that the file held with a latitude when the
\* run started is never looked up and keeps its entry; the addresses
\* looked up are absent from that file or held there without latitude; and
\* no address is handled twice in a run.
C7_GeocodeOrReadCache ==
    /\ InRun =>
          \A r \in GoodRows0 :
              /\ r.address \in DOMAIN cache
              /\ cache[r.address] = <<ParseCell(r.lat), ParseCell(r.lon)>>
              /\ pc \in {"call", "store"} => cur # r.address
    /\ attempts # << >> => cur \notin {r.address : r \in GoodRows0}
    /\ \A i, j \in 1..Len(done) : i # j => done[i] # done[j]

\* a returned run that handled an address held with coordinates, without a
\* lookup, and looked another one up
C7_Witness ==
    /\ pc = "returned"
    /\ \E r \in GoodRows0 : r.address \in Handled
    /\ \E a \in Handled : a \notin {r.address : r \in GoodRows0}

\* C8: from the start of a run to its return the file holds every address
\* it held when the run started, and at the return also every non-null
\* address of the input.
C8_FileNeverLosesEntries ==
    /\ InRun => FileAddrs(file0) \subseteq FileAddrs(file)
    /\ pc = "returned" => InputAddrs \subseteq FileAddrs(file)

\* a returned run that found an address in the file which its input does
\* not name, and added one that the file did not hold
C8_Witness ==
    /\ pc = "returned"
    /\ FileAddrs(file0) \ InputAddrs # {}
    /\ InputAddrs \ FileAddrs(file0) # {}

\* C9 (as stated): fewer than 100 results of the run are ever unwritten, and
\* at the return the file holds the whole dict.
C9_UnsavedBelowCheckpoint ==
    /\ unsaved < CheckpointEvery
    /\ pc = "returned" => (unsaved = 0 /\ file = SaveCache(cache))

=============================================================================
